---- MODULE Spec2Model ----
(***************************************************************************)
(* Model of @appgeist/restful-next-api: the two request dispatchers        *)
(* (methods.js, rest.js), ApiError and the default error handler.          *)
(* One behaviour of the model is one invocation of a dispatcher built from *)
(* one options object, on one request.                                     *)
(***************************************************************************)
EXTENDS Integers, Sequences, FiniteSets, TLC

VARIABLES
  api,                  \* which dispatcher was built: "methods" or "rest"
  options,              \* the options / handlers object given to the builder
  req,                  \* the incoming request: method, query, body
  pc,                   \* position of the async dispatcher function
  method,               \* methods.js `method` / rest.js `handlerSpec`
  beforeRequestHandler, \* methods.js local: which pre-hook was selected
  query,                \* local `query` (replaced by validation)
  body,                 \* local `body` (replaced by validation)
  result,               \* what the request handler resolved to
  err,                  \* the value caught by the catch clause
  hook,                 \* the pre-hook call: not called, returned, threw, or its promise
  handler,              \* the request handler call: idle, pending, settled
  responses,            \* every response written to res, in order
  errCalls,             \* every error handler invocation: which one, with what
  diag,                 \* console output (the operator-visible channel)
  escaped,              \* errors that left the dispatcher uncaught
  trace,                \* the order in which the steps happened
  handlerArgs,          \* the arguments of each call of the request handler
  constructed           \* every `new ApiError(arg)` evaluated: arg and the error made

vars == <<api, options, req, pc, method, beforeRequestHandler, query, body,
          result, err, hook, handler, responses, errCalls, diag, escaped, trace, handlerArgs,
          constructed>>

----------------------------------------------------------------------------
(* Bounds *)

\* at most this many field violations in the query, and in the body
MaxViol == 2

----------------------------------------------------------------------------
(* http-status-codes *)

INTERNAL_SERVER_ERROR == 500
METHOD_NOT_ALLOWED == 405
BAD_REQUEST == 400
CREATED == 201
NO_CONTENT == 204
OK == 200
FORBIDDEN == 403
NOT_FOUND == 404

\* the value of a property an object does not have
undefined == 0

\* getStatusText of http-status-codes, on the codes the model uses
getStatusText(status) ==
  CASE status = 500 -> "Internal Server Error"
    [] status = 405 -> "Method Not Allowed"
    [] status = 400 -> "Bad Request"
    [] status = 403 -> "Forbidden"
    [] status = 404 -> "Not Found"
    [] OTHER -> "unknown"

----------------------------------------------------------------------------
(* Errors.  Every thrown value is a record of the same shape; `type` is    *)
(* what instanceof discriminates on.                                        *)

Err(type, httpStatusCode, message, errors, stack) ==
  [type |-> type, httpStatusCode |-> httpStatusCode, message |-> message,
   errors |-> errors, stack |-> stack]

NoError == Err("none", undefined, "", <<>>, "")

\* the argument of `new ApiError(options)`: none, a number, or an object
\* (message "" when the object has none)
NoArg == [typeof |-> "undefined", status |-> undefined, message |-> ""]
NumberArg(n) == [typeof |-> "number", status |-> n, message |-> ""]
ObjectArg(status, message) == [typeof |-> "object", status |-> status, message |-> message]

\* the constructor without the fallback to the reason phrase for an object
\* that has no message
ApiErrorNoFallback(arg) ==
  LET status == IF arg.typeof \in { "object", "number" } THEN arg.status
                ELSE INTERNAL_SERVER_ERROR
      message == IF arg.typeof = "object" THEN arg.message
                 ELSE getStatusText(status)
  IN Err("ApiError", status, message, <<>>, "ApiError stack")

\* ApiError.js constructor: the message and httpStatusCode of the new error
ApiError(arg) ==
  LET status == IF arg.typeof \in { "object", "number" } THEN arg.status
                ELSE INTERNAL_SERVER_ERROR
      message == IF arg.typeof = "object"
                 THEN (IF arg.message = "" THEN getStatusText(status) ELSE arg.message)
                 ELSE IF arg.typeof = "number" THEN getStatusText(status)
                 ELSE getStatusText(INTERNAL_SERVER_ERROR)
  IN Err("ApiError", status, message, <<>>, "ApiError stack")

\* one evaluation of `new ApiError(arg)`
New(arg) == [arg |-> arg, error |-> ApiError(arg)]

\* a TypeError raised by the runtime (reading a property of undefined,
\* calling undefined)
TypeError(message) == Err("TypeError", undefined, message, <<>>, "TypeError stack")

\* err.status as read by the default error handler: ApiError sets `httpStatusCode`
\* and `name`, Error sets `message` and `stack`; nothing sets `status`
PropStatus(e) == undefined

\* what application code (a pre-hook or a request handler) may throw
ApiErrorArgs ==
  { NoArg, NumberArg(FORBIDDEN), NumberArg(NOT_FOUND),
    ObjectArg(FORBIDDEN, "no entry"), ObjectArg(NOT_FOUND, "") }

UnclassifiedErrors ==
  { Err("Error", undefined, "db password is hunter2", <<>>, "at secret.js:1"),
    Err("Error", undefined, "ECONNREFUSED 10.0.0.7", <<>>, "at other.js:9") }

UserErrors == { ApiError(a) : a \in ApiErrorArgs } \cup UnclassifiedErrors

\* a throw by application code: the constructions it evaluates and the error
\* it throws
UserThrows ==
  { [news |-> <<New(a)>>, err |-> ApiError(a)] : a \in ApiErrorArgs }
  \cup { [news |-> <<>>, err |-> e] : e \in UnclassifiedErrors }

----------------------------------------------------------------------------
(* Requests and options *)

ReqMethods == { "GET", "POST", "DELETE" }

\* String.prototype.toLowerCase on the verbs
toLowerCase(s) ==
  CASE s = "GET" -> "get"
    [] s = "POST" -> "post"
    [] s = "DELETE" -> "delete"
    [] OTHER -> s

\* request data: raw as deserialized by the framework, carrying some number
\* of fields that violate the schema it would be validated against
Data == [form : {"raw"}, violations : 0..MaxViol]

Requests == [method : ReqMethods, query : Data, body : Data]

SchemaKinds == { "undefined", "plain", "yup" }

Entry(kind, querySchema, bodySchema, beforeRequest, onRequest, onError, handleRequest) ==
  [kind |-> kind, querySchema |-> querySchema, bodySchema |-> bodySchema,
   beforeRequest |-> beforeRequest, onRequest |-> onRequest, onError |-> onError,
   handleRequest |-> handleRequest]

\* the value of options[k] when options has no key k
NoEntry == Entry("undefined", "undefined", "undefined", FALSE, FALSE, FALSE, FALSE)

\* methods.js: a verb maps to a bare function or to a MethodOptions object
MethodsEntries ==
  { NoEntry, Entry("function", "undefined", "undefined", FALSE, FALSE, FALSE, FALSE) }
  \cup { Entry("object", q, b, br, onr, one, FALSE) :
           q \in SchemaKinds, b \in SchemaKinds,
           br \in BOOLEAN, onr \in BOOLEAN, one \in BOOLEAN }

\* rest.js: a verb maps to { querySchema, bodySchema, handleRequest }, schemas yup
RestEntries ==
  { NoEntry }
  \cup { Entry("object", q, b, FALSE, FALSE, FALSE, h) :
           q \in {"undefined", "yup"}, b \in {"undefined", "yup"}, h \in BOOLEAN }

MethodsKeys == { toLowerCase(m) : m \in ReqMethods }

\* an options object configuring (at most) one verb, with or without the
\* route-wide beforeRequest and onError
MethodsOptions ==
  { [handlers |-> [k \in MethodsKeys |-> IF k = v THEN e ELSE NoEntry],
     beforeRequest |-> br, onError |-> one] :
      v \in MethodsKeys, e \in MethodsEntries, br \in BOOLEAN, one \in BOOLEAN }

RestOptions ==
  { [handlers |-> [k \in ReqMethods |-> IF k = v THEN e ELSE NoEntry],
     beforeRequest |-> FALSE, onError |-> FALSE] :
      v \in ReqMethods, e \in RestEntries }

----------------------------------------------------------------------------
(* Responses *)

Body(type, message, errors, value) ==
  [type |-> type, message |-> message, errors |-> errors, value |-> value]

NullBody == Body("null", "", <<>>, "")                       \* send(null)
MessageBody(message) == Body("message", message, <<>>, "")   \* { message }
ValidationBody(message, errors) == Body("message,errors", message, errors, "")
ValueBody(value) == Body("value", "", <<>>, value)           \* the handler's result
TextBody(text) == Body("text", "", <<>>, text)               \* a custom handler's text

Response(status, b) == [status |-> status, body |-> b]

----------------------------------------------------------------------------
(* yup *)

\* the messages of the violations of one part ("query" or "body")
PartErrors(part, schema, data) ==
  IF schema = "undefined" THEN <<>>
  ELSE [i \in 1..data.violations |-> part \o "." \o ToString(i)]

\* a part after validation: cast by its schema if it has one, else untouched
Cast(schema, data) ==
  IF schema = "undefined" THEN data ELSE [data EXCEPT !.form = "cast"]

\* object({query, body}).validate({query, body}, {abortEarly})
validate(querySchema, bodySchema, q, b, abortEarly) ==
  LET all == PartErrors("query", querySchema, q) \o PartErrors("body", bodySchema, b)
      errors == IF abortEarly /\ Len(all) > 1 THEN <<all[1]>> ELSE all
      message == IF Len(errors) = 1 THEN errors[1]
                 ELSE ToString(Len(errors)) \o " errors occurred"
  IN IF Len(all) = 0
     THEN [ok |-> TRUE, query |-> Cast(querySchema, q), body |-> Cast(bodySchema, b),
           error |-> NoError]
     ELSE [ok |-> FALSE, query |-> q, body |-> b,
           error |-> Err("ValidationError", undefined, message, errors, "yup stack")]

----------------------------------------------------------------------------
(* Error handlers.  Each yields the responses it writes and what it logs.   *)

Handled(written, logged) == [responses |-> written, diag |-> logged]

\* defaultErrorHandler with the unclassified branch answering with the error's
\* own message
defaultErrorHandlerLeaking(e) ==
  IF e.type = "ValidationError"
  THEN Handled(<<Response(BAD_REQUEST, ValidationBody(e.message, e.errors))>>, <<>>)
  ELSE IF e.type = "ApiError"
  THEN Handled(<<Response(PropStatus(e), MessageBody(e.message))>>, <<>>)
  ELSE Handled(<<Response(INTERNAL_SERVER_ERROR, MessageBody(e.message))>>, <<e>>)

\* defaultErrorHandler.js
defaultErrorHandler(e) ==
  IF e.type = "ValidationError"
  THEN Handled(<<Response(BAD_REQUEST, ValidationBody(e.message, e.errors))>>, <<>>)
  ELSE IF e.type = "ApiError"
  THEN Handled(<<Response(PropStatus(e), MessageBody(e.message))>>, <<>>)
  ELSE Handled(<<Response(INTERNAL_SERVER_ERROR,
                          MessageBody(getStatusText(INTERNAL_SERVER_ERROR)))>>,
               <<e>>)

\* the catch clause of rest.js
restErrorHandler(e) ==
  IF e.type = "ValidationError"
  THEN Handled(<<Response(BAD_REQUEST, ValidationBody(e.message, e.errors))>>, <<>>)
  ELSE IF e.type = "ApiError"
  THEN Handled(<<Response(e.httpStatusCode, MessageBody(e.message))>>, <<>>)
  ELSE Handled(<<Response(INTERNAL_SERVER_ERROR,
                          MessageBody(getStatusText(INTERNAL_SERVER_ERROR)))>>,
               <<e>>)

\* an application-supplied onError({ err, res }), as in the README:
\* res.status(500).send("Error")
customErrorHandler(e) ==
  Handled(<<Response(INTERNAL_SERVER_ERROR, TextBody("Error"))>>, <<>>)

\* methods.js catch clause: options.onError || method.onError || defaultErrorHandler.
\* "TypeError" when method is undefined and method.onError has to be read.
handleError(opts, m) ==
  IF opts.onError THEN "options.onError"
  ELSE IF m.kind = "undefined" THEN "TypeError"
  ELSE IF m.onError THEN "method.onError"
  ELSE "defaultErrorHandler"

\* selectBeforeRequest with the route-wide pre-hook preferred
selectBeforeRequestRouteFirst(opts, m) ==
  IF opts.beforeRequest THEN "options.beforeRequest"
  ELSE IF m.kind = "object" /\ m.beforeRequest THEN "method.beforeRequest"
  ELSE "undefined"

\* methods.js: the pre-hook selected for a resolved method
selectBeforeRequest(opts, m) ==
  IF m.kind = "function"
  THEN (IF opts.beforeRequest THEN "options.beforeRequest" ELSE "undefined")
  ELSE IF m.beforeRequest THEN "method.beforeRequest"
  ELSE IF opts.beforeRequest THEN "options.beforeRequest"
  ELSE "undefined"

\* `method === 'POST'` in methods.js, where `method` is options[methodName]:
\* undefined, a function or an object is strictly equal to no string
strictEqualsString(m, s) == m.kind = "string"

\* methods.js: status of the empty response
methodsEmptyStatus(m) == IF strictEqualsString(m, "POST") THEN CREATED ELSE NO_CONTENT

\* rest.js: status of the empty response; `method` is req.method
restEmptyStatus(verb) == IF verb = "POST" THEN CREATED ELSE NO_CONTENT

----------------------------------------------------------------------------
(* State *)

\* the pre-hook call: the function called, its arguments, how it ended
HookCall(state, fn, args, e) == [state |-> state, fn |-> fn, args |-> args, err |-> e]

NoHook == HookCall("not called", "undefined", <<>>, NoError)

\* what a request handler may resolve to: nothing, null, an object, or a
\* falsy value that is neither undefined nor null
Results == { "undefined", "null", "data", "0", "false" }

Init ==
  /\ api \in { "methods", "rest" }
  /\ options \in (IF api = "methods" THEN MethodsOptions ELSE RestOptions)
  /\ req \in Requests
  /\ pc = "start"
  /\ method = NoEntry
  /\ beforeRequestHandler = "undefined"
  /\ query = req.query
  /\ body = req.body
  /\ result = "undefined"
  /\ err = NoError
  /\ hook = NoHook
  /\ handler = "idle"
  /\ responses = <<>>
  /\ errCalls = <<>>
  /\ diag = <<>>
  /\ escaped = <<>>
  /\ trace = <<>>
  /\ handlerArgs = <<>>
  /\ constructed = <<>>

\* `throw new ApiError(arg)`: the error is constructed and control passes to
\* the catch clause with it
ThrowNew(arg) == /\ constructed' = Append(constructed, New(arg))
                 /\ err' = New(arg).error
                 /\ pc' = "catch"

\* control passes to the catch clause with e
Throw(e) == /\ err' = e
            /\ pc' = "catch"

----------------------------------------------------------------------------
(* methods.js *)

\* lines 25-41: look the verb up and resolve the handlers
MethodsLookup ==
  /\ api = "methods" /\ pc = "start"
  /\ LET methodName == toLowerCase(req.method)
         m == options.handlers[methodName]
     IN /\ method' = m
        /\ trace' = Append(trace, "lookup")
        /\ IF m.kind = "undefined"
           THEN /\ ThrowNew(NumberArg(METHOD_NOT_ALLOWED))
                /\ UNCHANGED beforeRequestHandler
           ELSE IF m.kind = "object" /\ ~m.onRequest
           THEN /\ ThrowNew(NumberArg(METHOD_NOT_ALLOWED))
                /\ UNCHANGED beforeRequestHandler
           ELSE /\ beforeRequestHandler' = selectBeforeRequest(options, m)
                /\ pc' = "beforeRequest"
                /\ UNCHANGED <<err, constructed>>
  /\ UNCHANGED <<handlerArgs, api, options, req, query, body, result, hook, handler,
                 responses, errCalls, diag, escaped>>

\* line 43, no pre-hook selected
MethodsNoBeforeRequest ==
  /\ api = "methods" /\ pc = "beforeRequest"
  /\ beforeRequestHandler = "undefined"
  /\ pc' = "validate"
  /\ UNCHANGED <<constructed, handlerArgs, api, options, req, method, beforeRequestHandler, query, body, result,
                 err, hook, handler, responses, errCalls, diag, escaped, trace>>

\* line 43, a pre-hook that returns
MethodsBeforeRequestReturns ==
  /\ api = "methods" /\ pc = "beforeRequest"
  /\ beforeRequestHandler # "undefined"
  /\ hook' = HookCall("returned", beforeRequestHandler, <<req>>, NoError)
  /\ trace' = trace \o <<"beforeRequest:start", "beforeRequest:end">>
  /\ pc' = "validate"
  /\ UNCHANGED <<constructed, handlerArgs, api, options, req, method, beforeRequestHandler, query, body, result,
                 err, handler, responses, errCalls, diag, escaped>>

\* line 43, a pre-hook that throws
MethodsBeforeRequestThrows ==
  /\ api = "methods" /\ pc = "beforeRequest"
  /\ beforeRequestHandler # "undefined"
  /\ \E t \in UserThrows :
       /\ hook' = HookCall("threw", beforeRequestHandler, <<req>>, t.err)
       /\ constructed' = constructed \o t.news
       /\ Throw(t.err)
  /\ trace' = trace \o <<"beforeRequest:start", "beforeRequest:end">>
  /\ UNCHANGED <<handlerArgs, api, options, req, method, beforeRequestHandler, query, body, result,
                 handler, responses, errCalls, diag, escaped>>

\* line 43, an async pre-hook: the call returns a promise, which is dropped
MethodsBeforeRequestAsync ==
  /\ api = "methods" /\ pc = "beforeRequest"
  /\ beforeRequestHandler # "undefined"
  /\ hook' = HookCall("pending", beforeRequestHandler, <<req>>, NoError)
  /\ trace' = Append(trace, "beforeRequest:start")
  /\ pc' = "validate"
  /\ UNCHANGED <<constructed, handlerArgs, api, options, req, method, beforeRequestHandler, query, body, result,
                 err, handler, responses, errCalls, diag, escaped>>

\* the promise of an async pre-hook resolves
BeforeRequestResolves ==
  /\ hook.state = "pending"
  /\ hook' = [hook EXCEPT !.state = "resolved"]
  /\ trace' = Append(trace, "beforeRequest:end")
  /\ UNCHANGED <<constructed, handlerArgs, api, options, req, pc, method, beforeRequestHandler, query, body,
                 result, err, handler, responses, errCalls, diag, escaped>>

\* the promise of an async pre-hook rejects: nothing awaits it or catches it
BeforeRequestRejects ==
  /\ hook.state = "pending"
  /\ \E t \in UserThrows :
       /\ hook' = [hook EXCEPT !.state = "rejected", !.err = t.err]
       /\ constructed' = constructed \o t.news
       /\ escaped' = Append(escaped, t.err)
  /\ trace' = Append(trace, "beforeRequest:end")
  /\ UNCHANGED <<handlerArgs, api, options, req, pc, method, beforeRequestHandler, query, body,
                 result, err, handler, responses, errCalls, diag>>

\* methodsValidate without { abortEarly: false }: yup stops at the first violation
methodsValidateAbortEarly(m, q, b) == validate(m.querySchema, m.bodySchema, q, b, TRUE)

\* lines 49-52: both parts validated together, collecting every violation
methodsValidate(m, q, b) == validate(m.querySchema, m.bodySchema, q, b, FALSE)

\* lines 45-53
MethodsValidate ==
  /\ api = "methods" /\ pc = "validate"
  /\ IF method.querySchema # "undefined" \/ method.bodySchema # "undefined"
     THEN LET v == methodsValidate(method, req.query, req.body)
          IN /\ trace' = Append(trace, "validate")
             /\ IF v.ok
                THEN /\ query' = v.query
                     /\ body' = v.body
                     /\ pc' = "onRequest"
                     /\ UNCHANGED err
                ELSE /\ Throw(v.error)
                     /\ UNCHANGED <<query, body>>
     ELSE /\ pc' = "onRequest"
          /\ UNCHANGED <<query, body, err, trace>>
  /\ UNCHANGED <<constructed, handlerArgs, api, options, req, method, beforeRequestHandler, result, hook,
                 handler, responses, errCalls, diag, escaped>>

\* the argument object with the raw request values in place of the locals
requestHandlerArgsRaw(q, b, r) == [query |-> r.query, body |-> r.body, req |-> r]

\* methods.js line 55, rest.js line 51: the argument object { query, body, req }
\* built from the locals
requestHandlerArgs(q, b, r) == [query |-> q, body |-> b, req |-> r]

\* line 55: the request handler is called and awaited
MethodsCallHandler ==
  /\ api = "methods" /\ pc = "onRequest"
  /\ handler' = "pending"
  /\ handlerArgs' = Append(handlerArgs, requestHandlerArgs(query, body, req))
  /\ trace' = Append(trace, "onRequest:start")
  /\ pc' = "await"
  /\ UNCHANGED <<constructed, api, options, req, method, beforeRequestHandler, query, body, result,
                 err, hook, responses, errCalls, diag, escaped>>

\* the awaited request handler returns (or its promise resolves)
HandlerReturns ==
  /\ pc = "await" /\ handler = "pending"
  /\ \E r \in Results : result' = r
  /\ handler' = "settled"
  /\ trace' = Append(trace, "onRequest:end")
  /\ pc' = "respond"
  /\ UNCHANGED <<constructed, handlerArgs, api, options, req, method, beforeRequestHandler, query, body, err,
                 hook, responses, errCalls, diag, escaped>>

\* the awaited request handler throws (or its promise rejects)
HandlerThrows ==
  /\ pc = "await" /\ handler = "pending"
  /\ \E t \in UserThrows :
       /\ constructed' = constructed \o t.news
       /\ Throw(t.err)
  /\ handler' = "settled"
  /\ trace' = Append(trace, "onRequest:end")
  /\ UNCHANGED <<handlerArgs, api, options, req, method, beforeRequestHandler, query, body, result,
                 hook, responses, errCalls, diag, escaped>>

\* `!result`: every falsy value taken for an absent result
isAbsentFalsy(r) == r \in { "undefined", "null", "0", "false" }

\* methods.js line 57, rest.js line 52: result === undefined || result === null
isAbsent(r) == r = "undefined" \/ r = "null"

\* lines 57-61
MethodsRespond ==
  /\ api = "methods" /\ pc = "respond"
  /\ IF isAbsent(result)
     THEN responses' = Append(responses, Response(methodsEmptyStatus(method), NullBody))
     ELSE responses' = Append(responses, Response(OK, ValueBody(result)))
  /\ trace' = Append(trace, "respond")
  /\ pc' = "done"
  /\ UNCHANGED <<constructed, handlerArgs, api, options, req, method, beforeRequestHandler, query, body, result,
                 err, hook, handler, errCalls, diag, escaped>>

\* lines 62-65
MethodsCatch ==
  /\ api = "methods" /\ pc = "catch"
  /\ LET h == handleError(options, method)
         out == IF h = "defaultErrorHandler" THEN defaultErrorHandler(err)
                ELSE customErrorHandler(err)
     IN IF h = "TypeError"
        THEN /\ escaped' = Append(escaped, TypeError("Cannot read property 'onError' of undefined"))
             /\ pc' = "rejected"
             /\ UNCHANGED <<responses, errCalls, diag>>
        ELSE /\ errCalls' = Append(errCalls, [handler |-> h, err |-> err])
             /\ responses' = responses \o out.responses
             /\ diag' = diag \o out.diag
             /\ pc' = "done"
             /\ UNCHANGED escaped
  /\ trace' = Append(trace, "catch")
  /\ UNCHANGED <<constructed, handlerArgs, api, options, req, method, beforeRequestHandler, query, body, result,
                 err, hook, handler>>

----------------------------------------------------------------------------
(* rest.js *)

\* lines 38-41
RestLookup ==
  /\ api = "rest" /\ pc = "start"
  /\ LET handlerSpec == options.handlers[req.method]
     IN /\ method' = handlerSpec
        /\ trace' = Append(trace, "lookup")
        /\ IF handlerSpec.kind = "undefined"
           THEN ThrowNew(NumberArg(METHOD_NOT_ALLOWED))
           ELSE /\ pc' = "validate"
                /\ UNCHANGED <<err, constructed>>
  /\ UNCHANGED <<handlerArgs, api, options, req, beforeRequestHandler, query, body, result, hook,
                 handler, responses, errCalls, diag, escaped>>

\* lines 45-48
restValidate(m, q, b) == validate(m.querySchema, m.bodySchema, q, b, FALSE)

\* lines 43-49
RestValidate ==
  /\ api = "rest" /\ pc = "validate"
  /\ IF method.querySchema = "yup" \/ method.bodySchema = "yup"
     THEN LET v == restValidate(method, req.query, req.body)
          IN /\ trace' = Append(trace, "validate")
             /\ IF v.ok
                THEN /\ query' = v.query
                     /\ body' = v.body
                     /\ pc' = "onRequest"
                     /\ UNCHANGED err
                ELSE /\ Throw(v.error)
                     /\ UNCHANGED <<query, body>>
     ELSE /\ pc' = "onRequest"
          /\ UNCHANGED <<query, body, err, trace>>
  /\ UNCHANGED <<constructed, handlerArgs, api, options, req, method, beforeRequestHandler, result, hook,
                 handler, responses, errCalls, diag, escaped>>

\* line 51: handleRequest is called and awaited; calling undefined is a TypeError
RestCallHandler ==
  /\ api = "rest" /\ pc = "onRequest"
  /\ IF method.handleRequest
     THEN /\ handler' = "pending"
          /\ handlerArgs' = Append(handlerArgs, requestHandlerArgs(query, body, req))
          /\ trace' = Append(trace, "onRequest:start")
          /\ pc' = "await"
          /\ UNCHANGED err
     ELSE /\ Throw(TypeError("handleRequest is not a function"))
          /\ UNCHANGED <<handler, trace, handlerArgs>>
  /\ UNCHANGED <<constructed, api, options, req, method, beforeRequestHandler, query, body, result,
                 hook, responses, errCalls, diag, escaped>>

\* lines 52-56
RestRespond ==
  /\ api = "rest" /\ pc = "respond"
  /\ IF isAbsent(result)
     THEN responses' = Append(responses, Response(restEmptyStatus(req.method), NullBody))
     ELSE responses' = Append(responses, Response(OK, ValueBody(result)))
  /\ trace' = Append(trace, "respond")
  /\ pc' = "done"
  /\ UNCHANGED <<constructed, handlerArgs, api, options, req, method, beforeRequestHandler, query, body, result,
                 err, hook, handler, errCalls, diag, escaped>>

\* lines 57-69
RestCatch ==
  /\ api = "rest" /\ pc = "catch"
  /\ LET out == restErrorHandler(err)
     IN /\ errCalls' = Append(errCalls, [handler |-> "rest catch", err |-> err])
        /\ responses' = responses \o out.responses
        /\ diag' = diag \o out.diag
  /\ trace' = Append(trace, "catch")
  /\ pc' = "done"
  /\ UNCHANGED <<constructed, handlerArgs, api, options, req, method, beforeRequestHandler, query, body, result,
                 err, hook, handler, escaped>>

----------------------------------------------------------------------------

Next ==
  \/ MethodsLookup
  \/ MethodsNoBeforeRequest
  \/ MethodsBeforeRequestReturns
  \/ MethodsBeforeRequestThrows
  \/ MethodsBeforeRequestAsync
  \/ BeforeRequestResolves
  \/ BeforeRequestRejects
  \/ MethodsValidate
  \/ MethodsCallHandler
  \/ HandlerReturns
  \/ HandlerThrows
  \/ MethodsRespond
  \/ MethodsCatch
  \/ RestLookup
  \/ RestValidate
  \/ RestCallHandler
  \/ RestRespond
  \/ RestCatch

Spec == Init /\ [][Next]_vars

----------------------------------------------------------------------------
(* Properties *)

\* the dispatcher function has returned: its promise resolved or rejected
Finished == pc \in { "done", "rejected" }

\* the request's verb maps to a handler: a function, or an object with one
HasHandler ==
  /\ pc # "start"
  /\ method.kind # "undefined"
  /\ IF api = "methods" THEN (method.kind = "object" => method.onRequest)
     ELSE method.handleRequest

\* the error in err was raised by the pre-hook, by validation or by the handler
RaisedWhileProcessing ==
  /\ HasHandler
  /\ err # NoError
  /\ \/ hook.state = "threw"
     \/ err.type = "ValidationError"
     \/ handler = "settled"

\* the default translation of errors is in effect: methods.js with no onError
\* at either level, or rest.js
DefaultTranslation ==
  \/ api = "rest"
  \/ api = "methods" /\ ~options.onError /\ ~method.onError

\* C1: one invocation of the dispatcher writes exactly one response: never
\* two, and not zero once it has finished, whatever path it took.
ExactlyOneResponse ==
  /\ Len(responses) <= 1
  /\ Finished => Len(responses) = 1

\* C2: a request whose verb has no entry in the handler map is answered 405
\* through the configured error handler: a custom handler observes an
\* ApiError with status 405; without one the default translator responds 405.
MissingVerbIs405 ==
  (Finished /\ method.kind = "undefined") =>
    /\ Len(errCalls) = 1
    /\ errCalls[1].err.type = "ApiError"
    /\ errCalls[1].err.httpStatusCode = METHOD_NOT_ALLOWED
    /\ IF api = "methods" /\ options.onError
       THEN errCalls[1].handler = "options.onError"
       ELSE /\ Len(responses) = 1
            /\ responses[1].status = METHOD_NOT_ALLOWED

\* C3: an error raised by the pre-hook, validation or the handler goes to
\* exactly one error handler: the verb-specific onError if configured, else the
\* route-wide onError if configured, else the default error handler.
ErrorHandlerPrecedence ==
  (api = "methods" /\ Finished /\ RaisedWhileProcessing) =>
    /\ Len(errCalls) = 1
    /\ errCalls[1].err = err
    /\ errCalls[1].handler =
         IF method.onError THEN "method.onError"
         ELSE IF options.onError THEN "options.onError"
         ELSE "defaultErrorHandler"

\* C4: a handler completing with undefined or null is answered with an empty
\* body, and status 201 when the request verb is POST, 204 otherwise.
AbsentResultStatus ==
  (Finished /\ handler = "settled" /\ err = NoError
     /\ result \in { "undefined", "null" }) =>
    responses = << Response(IF req.method = "POST" THEN CREATED ELSE NO_CONTENT,
                            NullBody) >>

\* the number of field violations of the request against the schemas of its verb
Violations ==
  (IF method.querySchema = "undefined" THEN 0 ELSE req.query.violations)
  + (IF method.bodySchema = "undefined" THEN 0 ELSE req.body.violations)

\* C5: a request failing validation with N field violations (query and body
\* together) never reaches the request handler, and under the default
\* translation it is answered 400 with { message, errors }, errors having
\* exactly N entries.
ValidationFailureIs400 ==
  (HasHandler /\ err.type = "ValidationError") =>
    /\ Violations > 0
    /\ handler = "idle"
    /\ (Finished /\ DefaultTranslation) =>
         /\ Len(responses) = 1
         /\ responses[1].status = BAD_REQUEST
         /\ responses[1].body.type = "message,errors"
         /\ responses[1].body.message = err.message
         /\ Len(responses[1].body.errors) = Violations

\* C5's case: methods.js, violations in the query and in the body, answered
ValidationFailureAnswered ==
  /\ api = "methods" /\ pc = "done" /\ DefaultTranslation
  /\ err.type = "ValidationError"
  /\ method.querySchema # "undefined" /\ method.bodySchema # "undefined"
  /\ req.query.violations >= 1 /\ req.body.violations >= 1
  /\ Len(responses) = 1

\* C6: an ApiError thrown by the pre-hook or the handler is answered, by the
\* default error handler, with exactly the error's status and { message }.
ApiErrorStatusAndMessage ==
  (api = "methods" /\ Finished /\ RaisedWhileProcessing /\ err.type = "ApiError"
     /\ DefaultTranslation) =>
    responses = << Response(err.httpStatusCode, MessageBody(err.message)) >>

\* C7: an error that is neither a validation error nor an ApiError is answered,
\* under the default translation, 500 with exactly { message: "Internal Server
\* Error" }, whatever the error holds; the error itself goes to the console.
UnclassifiedErrorIs500 ==
  (Finished /\ RaisedWhileProcessing /\ DefaultTranslation
     /\ err.type \notin { "ValidationError", "ApiError" }) =>
    /\ responses = << Response(500, MessageBody("Internal Server Error")) >>
    /\ diag = << err >>

\* C7's case: methods.js, the handler threw an unclassified error, answered
UnclassifiedErrorAnswered ==
  /\ api = "methods" /\ pc = "done" /\ DefaultTranslation
  /\ handler = "settled"
  /\ err \in UnclassifiedErrors
  /\ Len(responses) = 1

\* C8: no error leaves the dispatcher: its promise never rejects and no
\* promise it started rejects unhandled.
NothingEscapes ==
  /\ pc # "rejected"
  /\ escaped = <<>>

\* positions of an event in the trace
At(event) == { i \in DOMAIN trace : trace[i] = event }

\* every occurrence of `first` that precedes an occurrence of `then` is
\* followed, before it, by an occurrence of `between`
CompletedBefore(first, between, then) ==
  \A i \in At(first), k \in At(then) :
    i < k => \E j \in At(between) : i < j /\ j < k

\* C9: the steps are strictly sequential: validation and the handler start
\* only after a started pre-hook has completed, and the response is written
\* only after the handler has completed.
StrictlySequential ==
  /\ CompletedBefore("beforeRequest:start", "beforeRequest:end", "validate")
  /\ CompletedBefore("beforeRequest:start", "beforeRequest:end", "onRequest:start")
  /\ CompletedBefore("onRequest:start", "onRequest:end", "respond")

HandlerReceivesTransformed ==
  (HasHandler /\ handler # "idle") =>
    /\ Len(handlerArgs) = 1
    /\ handlerArgs[1].req = req
    /\ handlerArgs[1].query =
         IF method.querySchema = "undefined" THEN req.query
         ELSE [req.query EXCEPT !.form = "cast"]
    /\ handlerArgs[1].body =
         IF method.bodySchema = "undefined" THEN req.body
         ELSE [req.body EXCEPT !.form = "cast"]
    /\ (method.querySchema = "undefined" /\ method.bodySchema = "undefined") =>
         (handlerArgs[1].query = req.query /\ handlerArgs[1].body = req.body)
    /\ Violations = 0

\* C11's case: a query schema and a body schema, validation passed, and the
\* handler was called
HandlerCalledAfterValidation ==
  /\ HasHandler /\ handler # "idle"
  /\ method.querySchema # "undefined" /\ method.bodySchema # "undefined"
  /\ At("validate") # {}
  /\ Len(handlerArgs) = 1
  /\ handlerArgs[1].query.form = "cast"

\* C12: a handler completing with a present result (anything but undefined
\* and null, a falsy value included) is answered 200 with that value as the
\* body, for either dispatcher and every verb with a handler.
PresentResultIs200 ==
  (Finished /\ HasHandler /\ handler = "settled" /\ err = NoError
     /\ result \notin { "undefined", "null" }) =>
    responses = << Response(200, ValueBody(result)) >>

\* C12's case: a POST handler resolved to a falsy present value, answered
PresentResultAnswered ==
  /\ pc = "done" /\ HasHandler /\ handler = "settled" /\ err = NoError
  /\ req.method = "POST"
  /\ result = "0"
  /\ Len(responses) = 1

\* the request's verb maps to a configuration record without a handler function
RecordWithoutHandler ==
  /\ pc # "start"
  /\ method.kind = "object"
  /\ IF api = "methods" THEN ~method.onRequest ELSE ~method.handleRequest

\* C13: a verb whose configuration record has no handler function is answered
\* 405 through the error path, like a verb with no entry: the error handler
\* gets an ApiError with status 405, the default translation answers 405, and
\* neither the pre-hook nor validation runs.
MissingHandlerFunctionIs405 ==
  (Finished /\ RecordWithoutHandler) =>
    /\ Len(errCalls) = 1
    /\ errCalls[1].err.type = "ApiError"
    /\ errCalls[1].err.httpStatusCode = METHOD_NOT_ALLOWED
    /\ hook.state = "not called"
    /\ At("validate") = {}
    /\ DefaultTranslation =>
         /\ Len(responses) = 1
         /\ responses[1].status = METHOD_NOT_ALLOWED

\* C14: every ApiError constructed has a numeric status and a non-empty
\* message: with no argument 500 and the reason phrase for 500; with a number
\* n, n and the reason phrase for n; with { status, message }, that status and
\* that message; with an object without message, its status and the reason
\* phrase for it.
ApiErrorConstruction ==
  \A i \in DOMAIN constructed :
    LET a == constructed[i].arg
        e == constructed[i].error
    IN /\ e.type = "ApiError"
       /\ e.httpStatusCode \in Nat /\ e.httpStatusCode # undefined
       /\ e.message # ""
       /\ a.typeof = "undefined" =>
            (e.httpStatusCode = 500 /\ e.message = "Internal Server Error")
       /\ a.typeof = "number" =>
            (e.httpStatusCode = a.status /\ e.message = getStatusText(a.status))
       /\ (a.typeof = "object" /\ a.message # "") =>
            (e.httpStatusCode = a.status /\ e.message = a.message)
       /\ (a.typeof = "object" /\ a.message = "") =>
            (e.httpStatusCode = a.status /\ e.message = getStatusText(a.status))

\* C14's case: in one run an ApiError was constructed without argument and
\* another from an object without message
ApiErrorConstructedBothWays ==
  /\ \E i \in DOMAIN constructed : constructed[i].arg.typeof = "undefined"
  /\ \E i \in DOMAIN constructed :
       constructed[i].arg.typeof = "object" /\ constructed[i].arg.message = ""
  /\ Finished

====
